---- MODULE Spec2Model ----
(***************************************************************************)
(* Model of the streaming chat session hook, useChat                       *)
(* (src/frontend/src/hooks/useChat.ts).                                    *)
(*                                                                         *)
(* React state (messages, isLoading, conversationId) is modelled by its    *)
(* committed value: every updater the code queues is a functional updater  *)
(* or a plain value, so applying them in program order gives the value the *)
(* next render sees.  A handler invoked by the caller is the closure of    *)
(* the latest render, hence reads the current isLoading / conversationId / *)
(* messages.  A running sendMessage call keeps the values its closure      *)
(* captured when it was invoked (frame field conversationId).              *)
(*                                                                         *)
(* JavaScript is run-to-completion: one action is one task (a handler, or  *)
(* the continuation of sendMessage after an await).  abort() rejects the   *)
(* pending fetch/read promise, whose continuation runs as a microtask      *)
(* before any other task: while a frame is at pc "aborted" only its        *)
(* AbortHandler can run.                                                   *)
(*                                                                         *)
(* generateId draws a random identifier.  The session and the stream       *)
(* specifications take an identifier that no message of the transcript and *)
(* no running call holds (no collision); the identifier specification      *)
(* takes any identifier of a small space, as Math.random can return any    *)
(* value at every call.                                                    *)
(*                                                                         *)
(* Texts (message contents, token fragments) are sequences of characters,  *)
(* so that trimming and concatenation are computed, not assumed.           *)
(*                                                                         *)
(* The PDF viewer the chat window opens for a source                       *)
(* (src/unnamed/part_000) is a component of its own: its state is the      *)
(* variable pdf, its actions leave the session as it is and the session's  *)
(* actions leave the viewer as it is.                                      *)
(***************************************************************************)
EXTENDS Naturals, Sequences, FiniteSets

VARIABLES
    messages,            \* useState<Message[]>            (line 31)
    isLoading,           \* useState(false)                (line 32)
    conversationId,      \* useState<string | undefined>   (line 33)
    abortControllerRef,  \* useRef<AbortController | null> (line 36): 0 = null, else the frame owning the controller
    ex,                  \* the frames of the sendMessage calls: locals and position of each call
    effects,             \* calls to external collaborators made by the last step, in order
    lastOp,              \* observer: the handler or continuation that ran last, its argument,
                         \*           and the frame it ran in as it was when the step began
    wire,                \* observer: what the transport has delivered to the stream: its lines,
                         \*           or its text in the decoder specification
    pdf                  \* the PDF viewer of the chat window (src/unnamed/part_000): whether it
                         \*           is mounted, its document and its useState values (lines 29-34)

vars == <<messages, isLoading, conversationId, abortControllerRef, ex,
          effects, lastOp, wire, pdf>>

-----------------------------------------------------------------------------
(* Bounds *)

MaxMessages == 4     \* length of the transcript
MaxContent == 2      \* token fragments one stream delivers (session specification)
MaxLines == 3        \* lines one stream delivers (stream specification)
MaxChunkLines == 2   \* lines in one transport chunk (stream specification)
MaxBatch == 1        \* lines in one transport chunk (session specification)
NumSlots == 2        \* frames of sendMessage calls that can be live at once
NumIds == 3          \* identifiers generateId can return (identifier specification)
MaxFair == 3         \* length of the transcript (fair specification)
MaxPages == 8        \* pages of a document (viewer specification)

-----------------------------------------------------------------------------
(* Values *)

Undefined == "undefined"
ConvIds == {"A", "B"}

FailureText == <<"Desolee, une erreur s'est produite. Veuillez reessayer.">>
ToastText == <<"Erreur lors de la communication avec le serveur">>

\* Texts the caller submits: sequences of characters.
Inputs == {<<>>, <<" ", " ">>, <<" ", "q", " ">>, <<"r">>}

Slots == 1..NumSlots

\* content.trim(): strip leading and trailing white space.
IsSpace(c) == c = " "

RECURSIVE TrimStart(_)
TrimStart(s) == IF s # <<>> /\ IsSpace(Head(s)) THEN TrimStart(Tail(s)) ELSE s

RECURSIVE TrimEnd(_)
TrimEnd(s) ==
    IF s # <<>> /\ IsSpace(s[Len(s)]) THEN TrimEnd(SubSeq(s, 1, Len(s) - 1)) ELSE s

trim(s) == TrimEnd(TrimStart(s))

\* The Message interface.  sources?: hasSources = FALSE is "sources absent".
UserMessage(id, text) ==
    [id |-> id, role |-> "user", content |-> text,
     hasSources |-> FALSE, sources |-> <<>>, isStreaming |-> FALSE]

AssistantPlaceholder(id) ==
    [id |-> id, role |-> "assistant", content |-> <<>>,
     hasSources |-> FALSE, sources |-> <<>>, isStreaming |-> TRUE]

\* One line of a decoded chunk: marker = the line starts with 'data: ';
\* kind = what JSON.parse of the payload gives (its type field), or
\* "[DONE]" / "not-json"; arg = the field the handler reads.
Line(marker, kind, arg) == [marker |-> marker, kind |-> kind, arg |-> arg]

TokenLine(c) == Line(TRUE, "token", <<c>>)
SourcesLine(s) == Line(TRUE, "sources", s)
ConversationLine(c) == Line(TRUE, "conversation_id", <<c>>)
ErrorLine == Line(TRUE, "error", <<"X">>)

\* A frame of sendMessage: its position and its local variables.
IdleFrame ==
    [pc |-> "idle", assistantId |-> 0, conversationId |-> Undefined,
     fullContent |-> <<>>, sources |-> <<>>]

Effect(type, text, id) == [type |-> type, text |-> text, id |-> id]

Op(op, arg, frame) == [op |-> op, arg |-> arg, frame |-> frame]

-----------------------------------------------------------------------------
(* The program state as one record, so that handlers compose *)

Cur ==
    [messages |-> messages, isLoading |-> isLoading, conversationId |-> conversationId,
     abortControllerRef |-> abortControllerRef, ex |-> ex, effects |-> <<>>]

Apply(st, op) ==
    /\ messages' = st.messages
    /\ isLoading' = st.isLoading
    /\ conversationId' = st.conversationId
    /\ abortControllerRef' = st.abortControllerRef
    /\ ex' = st.ex
    /\ effects' = st.effects
    /\ lastOp' = op
    /\ pdf' = pdf

MicrotaskPending == \E e \in Slots : ex[e].pc = "aborted"

\* Faulty variant of Abort: the signal is not given to fetch (line 95), so
\* abort() rejects nothing
AbortIgnored(st, c) == st

\* controller.abort(): the pending fetch or read of the frame that owns the
\* controller rejects with AbortError; a settled call is not affected.
Abort(st, c) ==
    IF c # 0 /\ st.ex[c].pc \in {"fetch", "read"}
    THEN [st EXCEPT !.ex[c].pc = "aborted"]
    ELSE st

\* { ...m, field: value, ... }
Spread(m, patch) ==
    [f \in DOMAIN m |-> IF f \in DOMAIN patch THEN patch[f] ELSE m[f]]

\* Faulty variant of MapById: the message is addressed by its position, the
\* last of the transcript
MapLast(msgs, id, patch) ==
    [i \in 1..Len(msgs) |-> IF i = Len(msgs) THEN Spread(msgs[i], patch) ELSE msgs[i]]

\* Faulty variant of MapById: the message is addressed by its role, not its id
MapByRole(msgs, id, patch) ==
    [i \in 1..Len(msgs) |->
        IF msgs[i].role = "assistant" THEN Spread(msgs[i], patch) ELSE msgs[i]]

\* prev.map((m) => m.id === id ? { ...m, patch } : m)
MapById(msgs, id, patch) ==
    [i \in 1..Len(msgs) |-> IF msgs[i].id = id THEN Spread(msgs[i], patch) ELSE msgs[i]]

\* The frame a new call of sendMessage runs in.
FreeSlot(st) == CHOOSE e \in Slots :
    /\ st.ex[e].pc = "idle"
    /\ \A f \in Slots : st.ex[f].pc = "idle" => e <= f

\* generateId, lines 39-40: a random 7-character identifier, modelled as an
\* identifier no message of the transcript and no running call holds.
UsedIds(st) ==
    {st.messages[i].id : i \in 1..Len(st.messages)}
        \cup {st.ex[e].assistantId : e \in Slots}

generateId(used) == CHOOSE id \in 1..(Cardinality(used) + 1) : id \notin used

-----------------------------------------------------------------------------
(* sendMessage, lines 43-97: the synchronous part, up to the await of fetch *)

\* Faulty variants of SendMessageFrom: the text is not trimmed; the isLoading
\* guard of line 45 is missing; the guard of line 45 tests the untrimmed text.
SendMessageUntrimmed(st, content) ==
    IF trim(content) = <<>> \/ st.isLoading
    THEN st
    ELSE LET s1 == Abort(st, st.abortControllerRef)
             e == FreeSlot(s1)
             userId == generateId(UsedIds(s1))
             assistantId == generateId(UsedIds(s1) \cup {userId})
         IN [s1 EXCEPT
                !.abortControllerRef = e,
                !.messages = Append(Append(@, UserMessage(userId, content)),
                                    AssistantPlaceholder(assistantId)),
                !.isLoading = TRUE,
                !.ex[e] = [IdleFrame EXCEPT !.pc = "fetch",
                                            !.assistantId = assistantId,
                                            !.conversationId = st.conversationId],
                !.effects = Append(@, Effect("fetch", content, st.conversationId))]

SendMessageUnguarded(st, content) ==
    IF trim(content) = <<>>
    THEN st
    ELSE LET s1 == Abort(st, st.abortControllerRef)
             e == FreeSlot(s1)
             userId == generateId(UsedIds(s1))
             assistantId == generateId(UsedIds(s1) \cup {userId})
         IN [s1 EXCEPT
                !.abortControllerRef = e,
                !.messages = Append(Append(@, UserMessage(userId, trim(content))),
                                    AssistantPlaceholder(assistantId)),
                !.isLoading = TRUE,
                !.ex[e] = [IdleFrame EXCEPT !.pc = "fetch",
                                            !.assistantId = assistantId,
                                            !.conversationId = st.conversationId],
                !.effects = Append(@, Effect("fetch", trim(content), st.conversationId))]

SendMessageUntrimmedGuard(st, content) ==
    IF content = <<>> \/ st.isLoading
    THEN st
    ELSE LET s1 == Abort(st, st.abortControllerRef)
             e == FreeSlot(s1)
             userId == generateId(UsedIds(s1))
             assistantId == generateId(UsedIds(s1) \cup {userId})
         IN [s1 EXCEPT
                !.abortControllerRef = e,
                !.messages = Append(Append(@, UserMessage(userId, trim(content))),
                                    AssistantPlaceholder(assistantId)),
                !.isLoading = TRUE,
                !.ex[e] = [IdleFrame EXCEPT !.pc = "fetch",
                                            !.assistantId = assistantId,
                                            !.conversationId = st.conversationId],
                !.effects = Append(@, Effect("fetch", trim(content), st.conversationId))]

\* Faulty variant of SendMessageWith: the request body (lines 91-95) leaves
\* conversation_id out
SendMessageWithoutConversation(st, content, userId, assistantId) ==
    IF trim(content) = <<>> \/ st.isLoading
    THEN st
    ELSE LET s1 == Abort(st, st.abortControllerRef)
             e == FreeSlot(s1)
         IN [s1 EXCEPT
                !.abortControllerRef = e,
                !.messages = Append(Append(@, UserMessage(userId, trim(content))),
                                    AssistantPlaceholder(assistantId)),
                !.isLoading = TRUE,
                !.ex[e] = [IdleFrame EXCEPT !.pc = "fetch",
                                            !.assistantId = assistantId,
                                            !.conversationId = st.conversationId],
                !.effects = Append(@, Effect("fetch", trim(content), Undefined))]

\* lines 43-97, with the two identifiers generateId returns at lines 57 and 67
SendMessageWith(st, content, userId, assistantId) ==
    IF trim(content) = <<>> \/ st.isLoading
    THEN st
    ELSE LET s1 == Abort(st, st.abortControllerRef)
             e == FreeSlot(s1)
         IN [s1 EXCEPT
                !.abortControllerRef = e,
                !.messages = Append(Append(@, UserMessage(userId, trim(content))),
                                    AssistantPlaceholder(assistantId)),
                !.isLoading = TRUE,
                !.ex[e] = [IdleFrame EXCEPT !.pc = "fetch",
                                            !.assistantId = assistantId,
                                            !.conversationId = st.conversationId],
                !.effects = Append(@, Effect("fetch", trim(content), st.conversationId))]

\* lines 43-97, the identifiers drawn being new
SendMessageFrom(st, content) ==
    LET userId == generateId(UsedIds(st))
        assistantId == generateId(UsedIds(st) \cup {userId})
    IN SendMessageWith(st, content, userId, assistantId)

sendMessage(content) ==
    /\ ~MicrotaskPending
    /\ Apply(SendMessageFrom(Cur, content), Op("sendMessage", content, IdleFrame))

\* sendMessage when generateId returns userId and then assistantId
sendMessageWithIds(content, userId, assistantId) ==
    /\ ~MicrotaskPending
    /\ Apply(SendMessageWith(Cur, content, userId, assistantId),
             Op("sendMessage", content, IdleFrame))

-----------------------------------------------------------------------------
(* sendMessage, lines 99-193: the continuations after each await *)

\* Faulty variant of Finally: setIsLoading(false) (line 191) is missing
FinallyKeepsLoading(st, e) ==
    [st EXCEPT !.abortControllerRef = 0,
               !.ex[e] = IdleFrame]

\* finally, lines 190-193; the call returns and its frame is gone
Finally(st, e) ==
    [st EXCEPT !.isLoading = FALSE,
               !.abortControllerRef = 0,
               !.ex[e] = IdleFrame]

\* Faulty variant of CatchFailure: every error is handled as line 165
\* handles an AbortError
CatchFailureAsAbort(st, e) ==
    LET stopped == [isStreaming |-> FALSE]
    IN [st EXCEPT !.messages = MapById(@, st.ex[e].assistantId, stopped)]

\* Faulty variant of CatchFailure: the request is sent again after a failure
CatchFailureRetries(st, e) ==
    LET failed == [content |-> FailureText, isStreaming |-> FALSE]
        again == Effect("fetch", st.messages[Len(st.messages) - 1].content,
                        st.ex[e].conversationId)
    IN [st EXCEPT !.effects = Append(Append(@, Effect("toast", ToastText, Undefined)), again),
                  !.messages = MapById(@, st.ex[e].assistantId, failed)]

\* catch, lines 175-189: an error that is not an AbortError
CatchFailure(st, e) ==
    LET failed == [content |-> FailureText, isStreaming |-> FALSE]
    IN [st EXCEPT !.effects = Append(@, Effect("toast", ToastText, Undefined)),
                  !.messages = MapById(@, st.ex[e].assistantId, failed)]

\* Faulty variant of CatchAbort: the AbortError test of line 165 is missing
CatchAbortAsFailure(st, e) == CatchFailure(st, e)

\* Faulty variant of CatchAbort: the cancelled call commits what it staged
CatchAbortAttachesSources(st, e) ==
    LET stopped == [hasSources |-> TRUE, sources |-> st.ex[e].sources,
                    isStreaming |-> FALSE]
    IN [st EXCEPT !.messages = MapById(@, st.ex[e].assistantId, stopped)]

\* catch, lines 165-173: the AbortError of a cancelled fetch or read
CatchAbort(st, e) ==
    LET stopped == [isStreaming |-> FALSE]
    IN [st EXCEPT !.messages = MapById(@, st.ex[e].assistantId, stopped)]

\* lines 153-163: the read loop ended with done
Finalize(st, e) ==
    LET final == [content |-> st.ex[e].fullContent,
                  hasSources |-> TRUE,
                  sources |-> st.ex[e].sources,
                  isStreaming |-> FALSE]
    IN [st EXCEPT !.messages = MapById(@, st.ex[e].assistantId, final),
                  !.effects = Append(@, Effect("invalidateQueries", <<>>, Undefined))]

\* Faulty variant of FoldToken: fullContent = parsed.content instead of +=
FoldTokenReplaces(st, e, content) ==
    LET fullContent == content
        grown == [content |-> fullContent]
    IN [st EXCEPT !.ex[e].fullContent = fullContent,
                  !.messages = MapById(@, st.ex[e].assistantId, grown)]

\* Faulty variant of FoldToken: the fragment is put in front of the text
FoldTokenPrepends(st, e, content) ==
    LET fullContent == content \o st.ex[e].fullContent
        grown == [content |-> fullContent]
    IN [st EXCEPT !.ex[e].fullContent = fullContent,
                  !.messages = MapById(@, st.ex[e].assistantId, grown)]

\* lines 126-134: a token event
FoldToken(st, e, content) ==
    LET fullContent == st.ex[e].fullContent \o content
        grown == [content |-> fullContent]
    IN [st EXCEPT !.ex[e].fullContent = fullContent,
                  !.messages = MapById(@, st.ex[e].assistantId, grown)]

\* Faulty variant of FoldSources: the list is also shown on the streaming message
FoldSourcesVisible(st, e, sources) ==
    LET cited == [hasSources |-> TRUE, sources |-> sources]
    IN [st EXCEPT !.ex[e].sources = sources,
                  !.messages = MapById(@, st.ex[e].assistantId, cited)]

\* Faulty variant of FoldSources: the list is added to the staged one
FoldSourcesMerges(st, e, sources) == [st EXCEPT !.ex[e].sources = @ \o sources]

\* lines 135-136: a sources event
FoldSources(st, e, sources) == [st EXCEPT !.ex[e].sources = sources]

\* lines 137-142: a conversation_id event; conversationId is the value the
\* closure of this call captured
FoldConversation(st, e, newConvId) ==
    IF st.ex[e].conversationId = Undefined
    THEN [st EXCEPT !.conversationId = newConvId,
                    !.effects = Append(@, Effect("onConversationCreated", <<>>, newConvId))]
    ELSE st

\* lines 143-148: an error event; the Error thrown at line 144 is caught by
\* the catch of line 146, which ignores it
FoldError(st, e, message) == st

\* Faulty variant of FoldLine: a line that is not JSON is not ignored but
\* reaches the failure handling of lines 175-189
FoldLineMalformedFatal(st, e, line) ==
    IF ~line.marker THEN st
    ELSE IF line.kind = "[DONE]" THEN st
    ELSE IF line.kind = "not-json" THEN CatchFailure(st, e)
    ELSE IF line.kind = "token" THEN FoldToken(st, e, line.arg)
    ELSE IF line.kind = "sources" THEN FoldSources(st, e, line.arg)
    ELSE IF line.kind = "conversation_id" THEN FoldConversation(st, e, line.arg[1])
    ELSE IF line.kind = "error" THEN FoldError(st, e, line.arg)
    ELSE st

\* Faulty variant of FoldLine: the sentinel of line 121 finalizes the message
FoldLineDoneFinalizes(st, e, line) ==
    IF ~line.marker THEN st
    ELSE IF line.kind = "[DONE]" THEN Finalize(st, e)
    ELSE IF line.kind = "not-json" THEN st
    ELSE IF line.kind = "token" THEN FoldToken(st, e, line.arg)
    ELSE IF line.kind = "sources" THEN FoldSources(st, e, line.arg)
    ELSE IF line.kind = "conversation_id" THEN FoldConversation(st, e, line.arg[1])
    ELSE IF line.kind = "error" THEN FoldError(st, e, line.arg)
    ELSE st

\* lines 119-149: one line of a chunk
FoldLine(st, e, line) ==
    IF ~line.marker THEN st
    ELSE IF line.kind = "[DONE]" THEN st
    ELSE IF line.kind = "not-json" THEN st
    ELSE IF line.kind = "token" THEN FoldToken(st, e, line.arg)
    ELSE IF line.kind = "sources" THEN FoldSources(st, e, line.arg)
    ELSE IF line.kind = "conversation_id" THEN FoldConversation(st, e, line.arg[1])
    ELSE IF line.kind = "error" THEN FoldError(st, e, line.arg)
    ELSE st

\* lines 116-150: for (const line of lines)
RECURSIVE FoldLines(_, _, _)
FoldLines(st, e, lines) ==
    IF lines = <<>> THEN st
    ELSE FoldLines(FoldLine(st, e, Head(lines)), e, Tail(lines))

\* line 88: fetch resolves with a response that is ok and has a body
FetchResolved(e) ==
    /\ ~MicrotaskPending
    /\ ex[e].pc = "fetch"
    /\ Apply([Cur EXCEPT !.ex[e].pc = "read"], Op("FetchResolved", <<>>, ex[e]))

\* lines 88-104: fetch rejects, or the response is not ok, or has no body
FetchFailed(e, cause) ==
    /\ ~MicrotaskPending
    /\ ex[e].pc = "fetch"
    /\ Apply(Finally(CatchFailure(Cur, e), e), Op("FetchFailed", <<cause>>, ex[e]))

\* lines 112-150: read resolves with a chunk
ReadChunk(e, chunk) ==
    /\ ~MicrotaskPending
    /\ ex[e].pc = "read"
    /\ Apply(FoldLines(Cur, e, chunk), Op("ReadChunk", <<>>, ex[e]))

\* lines 112-113, 153-163: read resolves with done
ReadDone(e) ==
    /\ ~MicrotaskPending
    /\ ex[e].pc = "read"
    /\ Apply(Finally(Finalize(Cur, e), e), Op("ReadDone", <<>>, ex[e]))

\* line 112: read rejects with a network error
ReadFailed(e) ==
    /\ ~MicrotaskPending
    /\ ex[e].pc = "read"
    /\ Apply(Finally(CatchFailure(Cur, e), e), Op("ReadFailed", <<>>, ex[e]))

\* lines 164-173, 190-193: the rejection caused by abort()
AbortHandler(e) ==
    /\ ex[e].pc = "aborted"
    /\ Apply(Finally(CatchAbort(Cur, e), e), Op("AbortHandler", <<>>, ex[e]))

-----------------------------------------------------------------------------
(* The decoding of a chunk, lines 114-124.  A text is a sequence of the    *)
(* lexical units of the wire format ("data:", " ", "{", the body of an     *)
(* event, "}", "[DONE]", "\n"); a transport chunk is any piece of the text  *)
(* of the stream, so a chunk boundary can fall between any two units.      *)

Newline == "\n"

\* the bodies JSON.parse accepts between braces, and the event each one gives
EventOf(body) ==
    CASE body = "token a" -> TokenLine("a")
      [] body = "token b" -> TokenLine("b")
      [] body = "sources" -> SourcesLine(<<"s1", "s2">>)
      [] body = "conversation A" -> ConversationLine("A")
      [] body = "error" -> ErrorLine

Bodies == {"token a", "token b", "sources", "conversation A", "error"}

\* line 115: chunk.split('\n')
RECURSIVE Split(_)
Split(text) ==
    LET nl == {k \in 1..Len(text) : text[k] = Newline}
    IN IF nl = {} THEN <<text>>
       ELSE LET k == CHOOSE i \in nl : \A j \in nl : i <= j
            IN <<SubSeq(text, 1, k - 1)>> \o Split(SubSeq(text, k + 1, Len(text)))

\* line 119: line.startsWith('data: ')
StartsWithData(line) == Len(line) >= 2 /\ line[1] = "data:" /\ line[2] = " "

\* lines 119-124: the line as the handler sees it; JSON.parse throws unless
\* the payload is one whole object
ParseLine(line) ==
    IF ~StartsWithData(line) THEN Line(FALSE, "text", <<>>)
    ELSE LET data == trim(SubSeq(line, 3, Len(line)))
         IN IF data = <<"[DONE]">> THEN Line(TRUE, "[DONE]", <<>>)
            ELSE IF Len(data) = 3 /\ data[1] = "{" /\ data[3] = "}" /\ data[2] \in Bodies
                 THEN EventOf(data[2])
                 ELSE Line(TRUE, "not-json", <<>>)

\* lines 114-116: the lines of one chunk
Decode(text) ==
    LET lines == Split(text)
    IN [i \in 1..Len(lines) |-> ParseLine(lines[i])]

\* lines 112-150: read resolves with a chunk, given as its text
ReadText(e, text) == ReadChunk(e, Decode(text))

-----------------------------------------------------------------------------
(* stopStreaming, resetChat, regenerateLastResponse *)

\* Faulty variant of stopStreaming: besides cancelling, it marks every
\* message as stopped itself and drops the sources
stopStreamingStripsSources ==
    /\ ~MicrotaskPending
    /\ LET s1 == Abort(Cur, abortControllerRef)
           stopped == [isStreaming |-> FALSE, hasSources |-> FALSE, sources |-> <<>>]
       IN Apply([s1 EXCEPT !.messages = [i \in 1..Len(@) |-> Spread(@[i], stopped)]],
                Op("stopStreaming", <<>>, IdleFrame))

\* lines 199-203
stopStreaming ==
    /\ ~MicrotaskPending
    /\ Apply(Abort(Cur, abortControllerRef), Op("stopStreaming", <<>>, IdleFrame))

\* Faulty variant of resetChat: the call of stopStreaming (line 207) is
\* missing, so the running stream is not cancelled
resetChatWithoutStop ==
    /\ ~MicrotaskPending
    /\ Apply([Cur EXCEPT !.messages = <<>>, !.conversationId = Undefined],
             Op("resetChat", <<>>, IdleFrame))

\* lines 206-210
resetChat ==
    /\ ~MicrotaskPending
    /\ Apply([Abort(Cur, abortControllerRef) EXCEPT !.messages = <<>>,
                                                  !.conversationId = Undefined],
             Op("resetChat", <<>>, IdleFrame))

\* prev.map((m) => m.role).lastIndexOf(role), counted from 1; 0 when absent
LastIndexOf(msgs, role) ==
    LET hits == {i \in 1..Len(msgs) : msgs[i].role = role}
    IN IF hits = {} THEN 0 ELSE CHOOSE i \in hits : \A j \in hits : j <= i

\* Faulty variant of RegenerateFrom: without the return of line 217 a
\* default prompt is sent when the transcript has no user message
RegenerateFromDefaultPrompt(st) ==
    LET u == LastIndexOf(st.messages, "user")
        a == LastIndexOf(st.messages, "assistant")
        s1 == IF a = 0 THEN st ELSE [st EXCEPT !.messages = SubSeq(@, 1, a - 1)]
    IN SendMessageFrom(s1, IF u = 0 THEN <<"q">> ELSE st.messages[u].content)

\* lines 213-226
RegenerateFrom(st) ==
    LET u == LastIndexOf(st.messages, "user")
        a == LastIndexOf(st.messages, "assistant")
        s1 == IF a = 0 THEN st ELSE [st EXCEPT !.messages = SubSeq(@, 1, a - 1)]
    IN IF u = 0 THEN st ELSE SendMessageFrom(s1, st.messages[u].content)

regenerateLastResponse ==
    /\ ~MicrotaskPending
    /\ Apply(RegenerateFrom(Cur), Op("regenerateLastResponse", <<>>, IdleFrame))

-----------------------------------------------------------------------------
(* The PDF viewer, src/unnamed/part_000 lines 28-215.  A button that is     *)
(* disabled or not rendered cannot be clicked: the guard of an action is    *)
(* the condition under which its button is rendered and enabled.            *)

Min(a, b) == IF a <= b THEN a ELSE b

Max(a, b) == IF a >= b THEN a ELSE b

\* ChatWindow.tsx line 129: pdfUrl is null, no viewer is rendered
NoViewer ==
    [mounted |-> FALSE, document |-> 0, numPages |-> 0, currentPage |-> 0,
     isLoading |-> FALSE, error |-> FALSE]

\* a step of the viewer: the chat session is left as it is
ViewerStep(next, op) ==
    /\ pdf' = next
    /\ lastOp' = Op(op, <<>>, IdleFrame)
    /\ effects' = <<>>
    /\ UNCHANGED <<messages, isLoading, conversationId, abortControllerRef, ex, wire>>

\* lines 28-34: the first render, for a document of `pages` pages
MountViewer(pages, initialPage) ==
    /\ ~pdf.mounted
    /\ ViewerStep([mounted |-> TRUE, document |-> pages, numPages |-> 0,
                   currentPage |-> initialPage, isLoading |-> TRUE, error |-> FALSE],
                  "MountViewer")

\* lines 36-40
onDocumentLoadSuccess ==
    /\ pdf.mounted /\ pdf.isLoading
    /\ ViewerStep([pdf EXCEPT !.numPages = pdf.document, !.isLoading = FALSE,
                              !.error = FALSE],
                  "onDocumentLoadSuccess")

\* lines 42-45
onDocumentLoadError ==
    /\ pdf.mounted /\ pdf.isLoading
    /\ ViewerStep([pdf EXCEPT !.error = TRUE, !.isLoading = FALSE], "onDocumentLoadError")

\* line 47, behind the buttons of lines 61-63 and 179-181
goToPrevPage ==
    /\ pdf.mounted
    /\ ~(pdf.currentPage <= 1)
    /\ ViewerStep([pdf EXCEPT !.currentPage = Max(1, @ - 1)], "goToPrevPage")

\* Faulty variant of goToNextPage: the button is not disabled (lines 73, 215)
goToNextPageAlwaysEnabled ==
    /\ pdf.mounted
    /\ ViewerStep([pdf EXCEPT !.currentPage = Min(pdf.numPages, @ + 1)], "goToNextPage")

\* line 48, behind the buttons of lines 71-73 and 213-215
goToNextPage ==
    /\ pdf.mounted
    /\ ~(pdf.currentPage >= pdf.numPages)
    /\ ViewerStep([pdf EXCEPT !.currentPage = Min(pdf.numPages, @ + 1)], "goToNextPage")

\* line 177: the bottom navigation bar is rendered
PageBar == pdf.mounted /\ ~pdf.isLoading /\ ~pdf.error /\ pdf.numPages > 1

\* lines 187-196: the page of button i (from 0) of the five-button window
WindowPage(numPages, currentPage, i) ==
    IF numPages <= 5 THEN i + 1
    ELSE IF currentPage <= 3 THEN i + 1
    ELSE IF currentPage >= numPages - 2 THEN numPages - 4 + i
    ELSE currentPage - 2 + i

\* line 187: Array.from({ length: Math.min(5, numPages) }, (_, i) => ...)
WindowButtons(numPages) == 0..(Min(5, numPages) - 1)

\* lines 197-201: a click on button i of the window
PageButton(i) ==
    /\ PageBar
    /\ i \in WindowButtons(pdf.numPages)
    /\ ViewerStep([pdf EXCEPT !.currentPage = WindowPage(pdf.numPages, pdf.currentPage, i)],
                  "PageButton")

\* ChatWindow.tsx line 197: onClose sets pdfUrl to null, the viewer unmounts
CloseViewer ==
    /\ pdf.mounted
    /\ ViewerStep(NoViewer, "CloseViewer")

-----------------------------------------------------------------------------
(* The session specification: every operation, a small event alphabet *)

Lines == {TokenLine("a"), SourcesLine(<<"s1", "s2">>), ConversationLine("A"), ErrorLine}

Chunks == UNION {[1..n -> Lines] : n \in 1..MaxBatch}

FetchFailures == {"status", "body", "network"}

Init ==
    /\ messages = <<>>
    /\ isLoading = FALSE
    /\ conversationId \in {Undefined, "B"}      \* options.conversationId
    /\ abortControllerRef = 0
    /\ ex = [e \in Slots |-> IdleFrame]
    /\ effects = <<>>
    /\ lastOp = Op("init", <<>>, IdleFrame)
    /\ wire = <<>>
    /\ pdf = NoViewer

\* The bounds of the session specification.
Bounded ==
    /\ Len(messages') <= MaxMessages
    /\ \A e \in Slots : Len(ex'[e].fullContent) <= MaxContent

Session(A) == A /\ Bounded /\ UNCHANGED wire

Next ==
    \/ \E content \in Inputs : Session(sendMessage(content))
    \/ Session(stopStreaming)
    \/ Session(resetChat)
    \/ Session(regenerateLastResponse)
    \/ \E e \in Slots : Session(FetchResolved(e))
    \/ \E e \in Slots, cause \in FetchFailures : Session(FetchFailed(e, cause))
    \/ \E e \in Slots : ex[e].pc = "read" /\ \E chunk \in Chunks : Session(ReadChunk(e, chunk))
    \/ \E e \in Slots : Session(ReadDone(e))
    \/ \E e \in Slots : Session(ReadFailed(e))
    \/ \E e \in Slots : Session(AbortHandler(e))

Spec == Init /\ [][Next]_vars

-----------------------------------------------------------------------------
(* The fair specification: the session, with a shorter transcript, under   *)
(* the assumption that the transport settles every fetch and ends every    *)
(* stream (it closes or fails); the rejection caused by abort() is always  *)
(* handled (a microtask)                                                   *)

Fair(A) == Session(A) /\ Len(messages') <= MaxFair

FairNext ==
    \/ \E content \in Inputs : Fair(sendMessage(content))
    \/ Fair(stopStreaming)
    \/ Fair(resetChat)
    \/ Fair(regenerateLastResponse)
    \/ \E e \in Slots : Fair(FetchResolved(e))
    \/ \E e \in Slots, cause \in FetchFailures : Fair(FetchFailed(e, cause))
    \/ \E e \in Slots : ex[e].pc = "read" /\ \E chunk \in Chunks : Fair(ReadChunk(e, chunk))
    \/ \E e \in Slots : Fair(ReadDone(e))
    \/ \E e \in Slots : Fair(ReadFailed(e))
    \/ \E e \in Slots : Fair(AbortHandler(e))

Settle ==
    \E e \in Slots :
        \/ Fair(FetchResolved(e))
        \/ \E cause \in FetchFailures : Fair(FetchFailed(e, cause))
        \/ Fair(ReadDone(e))
        \/ Fair(ReadFailed(e))
        \/ Fair(AbortHandler(e))

FairSpec == Init /\ [][FairNext]_vars /\ WF_vars(Settle)

-----------------------------------------------------------------------------
(* The identifier specification: the session with the identifiers drawn    *)
(* at random, Math.random().toString(36).substring(2, 9) (line 40)         *)

IdSpace == 1..NumIds

\* one exchange at a time in the transcript
Draw(A) == Session(A) /\ Len(messages') <= 2

IdNext ==
    \/ \E content \in Inputs, userId \in IdSpace, assistantId \in IdSpace :
           Draw(sendMessageWithIds(content, userId, assistantId))
    \/ Draw(stopStreaming)
    \/ Draw(resetChat)
    \/ \E e \in Slots : Draw(FetchResolved(e))
    \/ \E e \in Slots, cause \in FetchFailures : Draw(FetchFailed(e, cause))
    \/ \E e \in Slots : ex[e].pc = "read" /\ \E chunk \in Chunks : Draw(ReadChunk(e, chunk))
    \/ \E e \in Slots : Draw(ReadDone(e))
    \/ \E e \in Slots : Draw(ReadFailed(e))
    \/ \E e \in Slots : Draw(AbortHandler(e))

IdSpec == Init /\ [][IdNext]_vars

-----------------------------------------------------------------------------
(* The stream specification: one exchange, every kind of line, and the     *)
(* observer recording what the transport delivered                         *)

StreamLines ==
    {TokenLine("a"), TokenLine("b"), Line(TRUE, "token", <<>>),
     SourcesLine(<<"s1">>), SourcesLine(<<"s1", "s2">>),
     ConversationLine("A"), ConversationLine("B"),
     ErrorLine,
     Line(TRUE, "not-json", <<>>),
     Line(TRUE, "[DONE]", <<>>),
     Line(FALSE, "token", <<"a">>)}

StreamChunks == UNION {[1..n -> StreamLines] : n \in 1..MaxChunkLines}

Stream(A, chunk) ==
    /\ Len(wire) + Len(chunk) <= MaxLines
    /\ wire' = wire \o chunk
    /\ A
    /\ Len(messages') <= 2

StreamNext ==
    \/ \E content \in Inputs : messages = <<>> /\ Stream(sendMessage(content), <<>>)
    \/ Stream(stopStreaming, <<>>)
    \/ \E e \in Slots : Stream(FetchResolved(e), <<>>)
    \/ \E e \in Slots, cause \in FetchFailures : Stream(FetchFailed(e, cause), <<>>)
    \/ \E e \in Slots : ex[e].pc = "read" /\ \E chunk \in StreamChunks : Stream(ReadChunk(e, chunk), chunk)
    \/ \E e \in Slots : Stream(ReadDone(e), <<>>)
    \/ \E e \in Slots : Stream(ReadFailed(e), <<>>)
    \/ \E e \in Slots : Stream(AbortHandler(e), <<>>)

StreamSpec == Init /\ [][StreamNext]_vars

-----------------------------------------------------------------------------
(* The decoder specification: one exchange whose stream is one of a few    *)
(* texts, cut into chunks at any places; the observer wire records the     *)
(* text delivered                                                          *)

Record(body) == <<"data:", " ", "{", body, "}", Newline>>

Texts ==
    {Record("token a") \o Record("token b"),
     Record("sources") \o Record("token a") \o <<"data:", " ", "[DONE]", Newline>>,
     Record("conversation A") \o Record("token b")}

Decoded(A, text) ==
    /\ wire' = wire \o text
    /\ A

DecodeNext ==
    \/ \E content \in Inputs : messages = <<>> /\ Decoded(sendMessage(content), <<>>)
    \/ \E e \in Slots : Decoded(FetchResolved(e), <<>>)
    \/ \E e \in Slots, t \in Texts : \E n \in 1..Len(t) :
           /\ ex[e].pc = "read"
           /\ Len(wire) < n /\ SubSeq(t, 1, Len(wire)) = wire
           /\ Decoded(ReadText(e, SubSeq(t, Len(wire) + 1, n)), SubSeq(t, Len(wire) + 1, n))
    \/ \E e \in Slots : wire \in Texts /\ Decoded(ReadDone(e), <<>>)

DecodeSpec == Init /\ [][DecodeNext]_vars

-----------------------------------------------------------------------------
(* Vocabulary of the properties *)

Spaces(n) == [k \in 1..n |-> " "]

\* t is s without its leading and trailing white space
IsTrimOf(t, s) ==
    /\ t # <<>> => t[1] # " " /\ t[Len(t)] # " "
    /\ \E i, j \in 0..Len(s) : s = Spaces(i) \o t \o Spaces(j)

IsBlank(s) == \A k \in 1..Len(s) : s[k] = " "

NoExchange == \A e \in Slots : ex[e].pc = "idle"

Ids(msgs) == {msgs[i].id : i \in 1..Len(msgs)}

Streaming(msgs) == {i \in 1..Len(msgs) : msgs[i].isStreaming}

IsTokenEvent(line) == line.marker /\ line.kind = "token"

\* f1 + ... + fn of the token events of the lines w, in the order of w
RECURSIVE TokenConcat(_)
TokenConcat(w) ==
    IF w = <<>> THEN <<>>
    ELSE (IF IsTokenEvent(Head(w)) THEN Head(w).arg ELSE <<>>) \o TokenConcat(Tail(w))

-----------------------------------------------------------------------------
(* C1: a submit of a text that is not blank, while no exchange is in       *)
(* flight, appends one new user message carrying the trimmed text and then *)
(* one new assistant placeholder (empty, streaming), and leaves the        *)
(* earlier messages as they were.                                          *)

C1_Post ==
    LET n == Len(messages) IN
    /\ Len(messages') = n + 2
    /\ SubSeq(messages', 1, n) = messages
    /\ messages'[n + 1].role = "user"
    /\ IsTrimOf(messages'[n + 1].content, lastOp'.arg)
    /\ ~messages'[n + 1].isStreaming /\ ~messages'[n + 1].hasSources
    /\ messages'[n + 2].role = "assistant"
    /\ messages'[n + 2].content = <<>>
    /\ messages'[n + 2].isStreaming /\ ~messages'[n + 2].hasSources
    /\ messages'[n + 1].id \notin Ids(messages)
    /\ messages'[n + 2].id \notin Ids(messages) \cup {messages'[n + 1].id}

\* C1: every accepted submit step satisfies C1_Post.
C1_SubmitAppendsPair ==
    [][(lastOp'.op = "sendMessage" /\ ~IsBlank(lastOp'.arg) /\ NoExchange) => C1_Post]_vars

C1_Witness ==
    /\ lastOp.op = "sendMessage" /\ lastOp.arg = <<" ", "q", " ">>
    /\ Len(messages) = 4
    /\ messages[3].content = <<"q">> /\ messages[4].isStreaming
    /\ ~messages[2].isStreaming

-----------------------------------------------------------------------------
(* C2: when a stream ends normally, the content of the finalized assistant *)
(* message is the concatenation of the fragments of the token events the   *)
(* stream delivered, in their order, however the lines were grouped into   *)
(* chunks.                                                                 *)

C2_ContentIsConcatenation ==
    lastOp.op = "ReadDone" =>
        /\ Len(messages) = 2
        /\ messages[2].content = TokenConcat(wire)
        /\ ~messages[2].isStreaming

C2_Witness ==
    /\ lastOp.op = "ReadDone"
    /\ wire = <<TokenLine("a"), SourcesLine(<<"s1">>), TokenLine("b")>>
    /\ messages[2].content = <<"a", "b">>

-----------------------------------------------------------------------------
(* C3: when a stream has delivered an error event, the exchange ends with  *)
(* the assistant message holding the fixed failure text, not streaming,    *)
(* and with the user message preserved.                                    *)

HasErrorEvent(w) == \E k \in 1..Len(w) : w[k].marker /\ w[k].kind = "error"

C3_ErrorEventGivesFailureText ==
    (HasErrorEvent(wire) /\ NoExchange) =>
        /\ Len(messages) = 2
        /\ messages[1].role = "user"
        /\ messages[2].content = FailureText
        /\ ~messages[2].isStreaming

-----------------------------------------------------------------------------
(* C4: regenerate on an idle transcript ending with a user message and an  *)
(* assistant message replaces that assistant message by one fresh          *)
(* streaming placeholder; the messages before it stay and no user message  *)
(* is added.                                                               *)

Users(msgs) == {i \in 1..Len(msgs) : msgs[i].role = "user"}

C4_Pre ==
    /\ NoExchange
    /\ Len(messages) >= 2
    /\ messages[Len(messages) - 1].role = "user"
    /\ messages[Len(messages)].role = "assistant"

C4_Post ==
    LET n == Len(messages) IN
    /\ Len(messages') = n
    /\ SubSeq(messages', 1, n - 1) = SubSeq(messages, 1, n - 1)
    /\ messages'[n].role = "assistant"
    /\ messages'[n].content = <<>>
    /\ messages'[n].isStreaming
    /\ Cardinality(Users(messages')) = Cardinality(Users(messages))

\* C4: every regenerate step from C4_Pre satisfies C4_Post.
C4_RegenerateReplacesAnswer ==
    [][(lastOp'.op = "regenerateLastResponse" /\ C4_Pre) => C4_Post]_vars

-----------------------------------------------------------------------------
(* C5: after stop during an exchange, the assistant message is not         *)
(* streaming, its content is the concatenation of the token fragments      *)
(* folded before the stop, it has no sources even when a sources event was *)
(* received, and it does not hold the failure text.                        *)

C5_StopKeepsPartialContent ==
    lastOp.op = "AbortHandler" =>
        /\ Len(messages) = 2
        /\ messages[2].role = "assistant"
        /\ ~messages[2].isStreaming
        /\ messages[2].content = TokenConcat(wire)
        /\ messages[2].content # FailureText
        /\ ~messages[2].hasSources /\ messages[2].sources = <<>>

C5_Witness ==
    /\ lastOp.op = "AbortHandler"
    /\ wire = <<TokenLine("a"), SourcesLine(<<"s1", "s2">>), TokenLine("b")>>
    /\ lastOp.frame.sources = <<"s1", "s2">>
    /\ messages[2].content = <<"a", "b">>

-----------------------------------------------------------------------------
(* C6: with conversationId unset when the exchange starts, a stream that   *)
(* delivers several conversation events leaves conversationId at the id of *)
(* the first of them.                                                      *)

IsConversationEvent(line) == line.marker /\ line.kind = "conversation_id"

ConversationEvents(w) == {k \in 1..Len(w) : IsConversationEvent(w[k])}

FirstConversationId(w) ==
    w[CHOOSE k \in ConversationEvents(w) : \A j \in ConversationEvents(w) : k <= j].arg[1]

\* C6: after the stream, conversationId is the id of its first conversation event.
C6_FirstConversationWins ==
    (/\ lastOp.op = "ReadDone"
     /\ lastOp.frame.conversationId = Undefined
     /\ ConversationEvents(wire) # {})
        => conversationId = FirstConversationId(wire)

-----------------------------------------------------------------------------
(* C7: a streaming assistant message never carries sources; a message gets *)
(* sources only in the step that ends its stream normally, which sets      *)
(* isStreaming to false and attaches the whole staged list.                *)

C7_Step ==
    /\ \A i \in 1..Len(messages') : messages'[i].isStreaming =>
            ~messages'[i].hasSources /\ messages'[i].sources = <<>>
    /\ \A i \in 1..Len(messages') :
            (/\ messages'[i].hasSources
             /\ \A j \in 1..Len(messages) :
                    messages[j].id = messages'[i].id => ~messages[j].hasSources)
            => /\ lastOp'.op = "ReadDone"
               /\ lastOp'.frame.assistantId = messages'[i].id
               /\ messages'[i].sources = lastOp'.frame.sources
               /\ ~messages'[i].isStreaming

\* C7: every step keeps streaming messages without sources and attaches
\* sources only at normal finalization, whole.
C7_SourcesOnlyAtFinalization == [][C7_Step]_vars

C7_Witness ==
    \E e \in Slots :
        /\ ex[e].pc = "read"
        /\ ex[e].sources = <<"s1", "s2">>
        /\ \E i \in 1..Len(messages) :
            /\ messages[i].id = ex[e].assistantId
            /\ messages[i].isStreaming
            /\ ~messages[i].hasSources

-----------------------------------------------------------------------------
(* C8: at most one assistant message of the transcript is streaming.       *)

C8_AtMostOneStreaming == Cardinality(Streaming(messages)) <= 1

C8_Witness ==
    /\ Len(messages) = 4
    /\ Streaming(messages) = {4}
    /\ lastOp.op = "ReadChunk"

-----------------------------------------------------------------------------
(* C9, as stated: a submit while a stream is active cancels that stream,   *)
(* starts a new exchange, and the earlier assistant message is no longer   *)
(* streaming when the new placeholder is in the transcript.                *)

Active(e) == ex[e].pc \in {"fetch", "read"}

RequestIssued(eff) == \E k \in 1..Len(eff) : eff[k].type = "fetch"

C9_Step ==
    /\ (lastOp'.op = "sendMessage" /\ \E e \in Slots : Active(e))
        => /\ UNCHANGED <<messages, ex, abortControllerRef>>
           /\ ~RequestIssued(effects')
    /\ RequestIssued(effects')
        => /\ NoExchange
           /\ Streaming(messages) = {}
           /\ Streaming(messages') = {Len(messages')}

-----------------------------------------------------------------------------
(* C10: a submit of a blank text, or a submit while an exchange is in      *)
(* flight, changes nothing: transcript, conversationId, isLoading, the     *)
(* cancellation handle and the running call stay, and no request is made.  *)

C10_Step ==
    (lastOp'.op = "sendMessage" /\ (IsBlank(lastOp'.arg) \/ ~NoExchange))
        => /\ UNCHANGED <<messages, conversationId, isLoading, abortControllerRef, ex>>
           /\ effects' = <<>>

\* C10: every blank or in-flight submit step changes nothing and requests nothing.
C10_SubmitNoOp == [][C10_Step]_vars

C10_Witness ==
    /\ lastOp.op = "sendMessage" /\ lastOp.arg = <<"r">>
    /\ Len(messages) = 2
    /\ messages[1].content = <<"q">>
    /\ messages[2].isStreaming /\ messages[2].content = <<"a">>
    /\ ex[1].pc = "read" /\ abortControllerRef = 1 /\ isLoading

-----------------------------------------------------------------------------
\* a "data: " line whose payload is not JSON
IsMalformed(line) == line.marker /\ line.kind = "not-json"

HasMalformed(w) == \E i \in 1..Len(w) : IsMalformed(w[i])

Toasts(effs) == {i \in 1..Len(effs) : effs[i].type = "toast"}

\* C11: a malformed record anywhere in the stream is skipped without ending
\* the stream: after a chunk the exchange is still reading and the content is
\* the concatenation of all token fragments delivered, before and after the
\* malformed record; at the end of the stream the exchange is finalized
\* normally; in both cases no failure text and no notification.
C11_MalformedRecordSkipped ==
    (HasMalformed(wire) /\ Len(messages) = 2) =>
        /\ lastOp.op = "ReadChunk" =>
              /\ \E e \in Slots : ex[e].pc = "read" /\ ex[e].fullContent = TokenConcat(wire)
              /\ messages[2].isStreaming
              /\ messages[2].content = TokenConcat(wire)
              /\ messages[2].content # FailureText
              /\ Toasts(effects) = {}
        /\ lastOp.op = "ReadDone" =>
              /\ messages[2].content = TokenConcat(wire)
              /\ messages[2].hasSources
              /\ ~messages[2].isStreaming
              /\ Toasts(effects) = {}
              /\ NoExchange

C11_Witness ==
    /\ lastOp.op = "ReadDone"
    /\ wire = <<TokenLine("a"), Line(TRUE, "not-json", <<>>), TokenLine("b")>>
    /\ messages[2].content = <<"a", "b">>
    /\ ~messages[2].isStreaming

-----------------------------------------------------------------------------
(* C12: regenerate on a transcript without a user message (the empty       *)
(* transcript in particular) is a no-op: no message is added or removed    *)
(* and no request is issued.                                               *)

C12_Step ==
    (lastOp'.op = "regenerateLastResponse" /\ Users(messages) = {})
        => /\ messages' = messages
           /\ ~RequestIssued(effects')
           /\ effects' = <<>>
           /\ UNCHANGED <<conversationId, isLoading, abortControllerRef, ex>>

\* C12: every regenerate step taken without a user message changes nothing.
C12_RegenerateWithoutUserNoOp == [][C12_Step]_vars

C12_Witness ==
    /\ lastOp.op = "regenerateLastResponse"
    /\ messages = <<>>
    /\ conversationId = "B"
    /\ NoExchange /\ ~isLoading

-----------------------------------------------------------------------------
(* C13: after reset, idle or in the middle of a stream, the transcript is  *)
(* empty and conversationId is unset, and both stay so until the next      *)
(* accepted submit: the handlers of the cancelled stream neither insert a  *)
(* message nor set conversationId.                                         *)

Cleared == messages = <<>> /\ conversationId = Undefined

C13_Step ==
    /\ lastOp'.op = "resetChat" => Cleared'
    /\ (Cleared /\ ~(lastOp'.op = "sendMessage" /\ RequestIssued(effects'))) => Cleared'

\* C13: reset clears transcript and conversationId, and only an accepted
\* submit ends the cleared state.
C13_ResetStaysCleared == [][C13_Step]_vars

\* the AbortError handler of a stream that was reset after it had folded a
\* token has run
C13_Witness ==
    /\ lastOp.op = "AbortHandler"
    /\ lastOp.frame.fullContent # <<>>
    /\ lastOp.frame.conversationId = Undefined
    /\ Cleared
    /\ NoExchange

-----------------------------------------------------------------------------
(* C14: stop while no cancellation handle is active has no effect: the     *)
(* transcript (so the content and the sources of a finalized assistant     *)
(* message), conversationId and isLoading are unchanged.                   *)

C14_Step ==
    (lastOp'.op = "stopStreaming" /\ abortControllerRef = 0)
        => /\ UNCHANGED <<messages, conversationId, isLoading, abortControllerRef, ex>>
           /\ effects' = <<>>

\* C14: every stop step taken without an active handle changes nothing.
C14_StopWithoutHandleNoOp == [][C14_Step]_vars

\* stop after an exchange was finalized with content and sources
C14_Witness ==
    /\ lastOp.op = "stopStreaming"
    /\ abortControllerRef = 0 /\ NoExchange /\ ~isLoading
    /\ Len(messages) = 2
    /\ messages[2].content = <<"a">>
    /\ messages[2].hasSources /\ messages[2].sources = <<"s1", "s2">>
    /\ ~messages[2].isStreaming
    /\ conversationId = "A"

-----------------------------------------------------------------------------
(* C15: a transport failure that is not the caller's cancellation (status  *)
(* not OK, no body, network error before or while reading) ends the        *)
(* exchange: the assistant content becomes the fixed failure text,         *)
(* isStreaming becomes false, no staged sources are attached, and the user *)
(* message stays.                                                          *)

C15_Step ==
    lastOp'.op \in {"FetchFailed", "ReadFailed"} =>
        /\ Len(messages') = 2
        /\ messages'[1] = messages[1] /\ messages'[1].role = "user"
        /\ messages'[2].id = lastOp'.frame.assistantId
        /\ messages'[2].content = FailureText
        /\ ~messages'[2].isStreaming
        /\ ~messages'[2].hasSources /\ messages'[2].sources = <<>>
        /\ NoExchange' /\ ~isLoading' /\ abortControllerRef' = 0

-----------------------------------------------------------------------------
\* C16: once conversationId is set, no step other than reset changes it: it
\* keeps its first value across submit, stop, regenerate and the conversation
\* events of every stream.
C16_ConversationIdKeepsFirstValue ==
    [][(conversationId # Undefined /\ lastOp'.op # "resetChat")
           => conversationId' = conversationId]_vars

-----------------------------------------------------------------------------
(* C17: while an assistant message is streaming, every update of its       *)
(* content by token events extends the previous content at the end: the    *)
(* previous content is a prefix of the new one, the new one is the         *)
(* previous one followed by the fragments folded, and it is longer         *)
(* whenever a fragment is not empty. Nothing is rewound, shortened or      *)
(* spliced.                                                                *)

IsPrefix(p, s) == Len(p) <= Len(s) /\ SubSeq(s, 1, Len(p)) = p

C17_Step ==
    (lastOp'.op = "ReadChunk" /\ Len(messages) = 2 /\ messages[2].isStreaming) =>
        LET chunk == SubSeq(wire', Len(wire) + 1, Len(wire'))
            old == messages[2].content
            new == messages'[2].content
        IN /\ messages'[2].isStreaming
           /\ IsPrefix(old, new)
           /\ new = old \o TokenConcat(chunk)
           /\ TokenConcat(chunk) # <<>> => Len(new) > Len(old)

\* C17: every chunk step extends the streaming content at its end.
C17_ContentOnlyGrowsAtEnd == [][C17_Step]_vars

\* a fragment was appended to a content that was not empty
C17_Witness ==
    /\ lastOp.op = "ReadChunk"
    /\ lastOp.frame.fullContent = <<"a">>
    /\ messages[2].isStreaming
    /\ messages[2].content = <<"a", "b">>

-----------------------------------------------------------------------------
(* C18: an assistant message whose isStreaming has become false is final:  *)
(* no step sets isStreaming again or changes its content or sources; it    *)
(* stays as it is at its place in the transcript, and it can only          *)
(* disappear, by reset or, if it is the last assistant message, by         *)
(* regenerate.                                                             *)

Finalized(m) == m.role = "assistant" /\ ~m.isStreaming

C18_Step ==
    \A i \in 1..Len(messages) :
        Finalized(messages[i]) =>
            \/ i <= Len(messages') /\ messages'[i] = messages[i]
            \/ lastOp'.op = "resetChat"
            \/ lastOp'.op = "regenerateLastResponse" /\ i = LastIndexOf(messages, "assistant")

-----------------------------------------------------------------------------
\* C19: in every reachable state the messages of the transcript have
\* pairwise distinct ids.
C19_IdsPairwiseDistinct ==
    \A i, j \in 1..Len(messages) : i # j => messages[i].id # messages[j].id

-----------------------------------------------------------------------------
\* the lines of w before its first error event
BeforeError(w) ==
    LET errs == {k \in 1..Len(w) : w[k].marker /\ w[k].kind = "error"}
    IN IF errs = {} THEN w
       ELSE SubSeq(w, 1, (CHOOSE k \in errs : \A j \in errs : k <= j) - 1)

\* C20: an error event ends the processing of its stream at once: the
\* content never holds a fragment of a token event that follows the error
\* event (it is what was folded before it, or the failure text), and the
\* sources staged before it are never attached.
C20_ErrorEventEndsProcessing ==
    (HasErrorEvent(wire) /\ Len(messages) = 2) =>
        /\ messages[2].content \in {TokenConcat(BeforeError(wire)), FailureText}
        /\ ~messages[2].hasSources

-----------------------------------------------------------------------------
\* C21: the events decoded from a stream do not depend on the chunk
\* boundaries: when the stream has delivered its whole text and closed, the
\* content is the concatenation of the token fragments of the records of the
\* text, also when a chunk boundary fell inside a record.
C21_DecodingIgnoresChunkBoundaries ==
    (lastOp.op = "ReadDone" /\ wire \in Texts /\ Len(messages) = 2) =>
        messages[2].content = TokenConcat(Decode(wire))

-----------------------------------------------------------------------------
(* C22: stop racing with the end of the stream.  If the exchange has       *)
(* settled first, a later stop (or any later step) changes neither the     *)
(* transcript nor conversationId and notifies nothing.  If stop comes      *)
(* first, the only step that follows is the AbortError handler: it keeps   *)
(* the content, attaches no sources, sets isStreaming false, issues no     *)
(* notification and no failure text, and ends the call, so the end of the  *)
(* stream is never folded.                                                 *)

Settled == Len(messages) = 2 /\ ~messages[2].isStreaming

C22_Step ==
    /\ Settled =>
          /\ messages' = messages
          /\ conversationId' = conversationId
          /\ Toasts(effects') = {}
          /\ NoExchange'
    /\ (lastOp.op = "stopStreaming" /\ Len(messages) = 2 /\ messages[2].isStreaming) =>
          /\ lastOp'.op = "AbortHandler"
          /\ messages'[2].content = messages[2].content
          /\ messages'[2].content # FailureText
          /\ ~messages'[2].hasSources
          /\ ~messages'[2].isStreaming
          /\ Toasts(effects') = {}
          /\ NoExchange'

\* C22: whichever of stop and the end of the stream comes first settles the
\* message, once, and nothing changes it afterwards.
C22_StopRaceIsIdempotent == [][C22_Step]_vars

\* stop came when the whole stream had been delivered but not yet closed
C22_Witness ==
    /\ lastOp.op = "AbortHandler"
    /\ wire = <<TokenLine("a"), SourcesLine(<<"s1">>), Line(TRUE, "[DONE]", <<>>)>>
    /\ messages[2].content = <<"a">>
    /\ ~messages[2].hasSources /\ ~messages[2].isStreaming
    /\ NoExchange

-----------------------------------------------------------------------------
(* C23: after stop has cancelled an exchange in flight, no further event   *)
(* of its stream is folded: the step that follows is the AbortError        *)
(* handler of the call, the content of every message and conversationId    *)
(* stay as they were at the stop, and nothing is raised as an error (no    *)
(* notification, no failure text).                                         *)

C23_Step ==
    (lastOp.op = "stopStreaming" /\ ~NoExchange) =>
        /\ lastOp'.op = "AbortHandler"
        /\ Len(messages') = Len(messages)
        /\ \A i \in 1..Len(messages) :
              /\ messages'[i].content = messages[i].content
              /\ messages'[i].sources = messages[i].sources
              /\ messages'[i].id = lastOp'.frame.assistantId => messages'[i].content # FailureText
        /\ conversationId' = conversationId
        /\ Toasts(effects') = {}
        /\ NoExchange'

\* C23: the step after the stop of an exchange in flight is its AbortError
\* handler, which folds nothing.
C23_NothingFoldedAfterStop == [][C23_Step]_vars

\* stopped after a token, before any conversation event
C23_Witness ==
    /\ lastOp.op = "AbortHandler"
    /\ lastOp.frame.pc = "aborted" /\ lastOp.frame.fullContent = <<"a">>
    /\ Len(messages) = 2
    /\ messages[2].content = <<"a">> /\ ~messages[2].isStreaming
    /\ conversationId = Undefined

-----------------------------------------------------------------------------
InFlight == {e \in Slots : ex[e].pc # "idle"}

\* C24: at most one call holds a controller that is not aborted, and while a
\* call is fetching or reading abortControllerRef is the controller of that
\* call; a handle that is not null belongs to a call that has not returned.
C24_HandleIsOfTheExchangeInFlight ==
    /\ Cardinality({e \in Slots : Active(e)}) <= 1
    /\ \A e \in Slots : Active(e) => abortControllerRef = e
    /\ abortControllerRef # 0 => abortControllerRef \in InFlight

\* a second exchange is reading after the first one was stopped and its
\* cleanup has run
C24_Witness ==
    /\ Len(messages) = 4
    /\ ~messages[2].isStreaming /\ ~messages[2].hasSources
    /\ messages[2].content = <<"a">>
    /\ messages[4].isStreaming
    /\ \E e \in Slots : ex[e].pc = "read" /\ abortControllerRef = e
                        /\ ex[e].assistantId = messages[4].id

-----------------------------------------------------------------------------
\* C25: regenerate keeps every message up to and including the most recent
\* user message, unchanged and in the same order.
C25_RegenerateKeepsUpToLastUser ==
    [][(lastOp'.op = "regenerateLastResponse" /\ Users(messages) # {})
          => LET u == LastIndexOf(messages, "user")
             IN /\ Len(messages') >= u
                /\ SubSeq(messages', 1, u) = SubSeq(messages, 1, u)]_vars

ConsecutivePairs(msgs) ==
    /\ Len(msgs) % 2 = 0
    /\ \A i \in 1..Len(msgs) :
          msgs[i].role = (IF i % 2 = 1 THEN "user" ELSE "assistant")

\* C26: in every reachable state the transcript is a sequence of pairs, a
\* user message followed by its one assistant message.
C26_TranscriptIsPairs == ConsecutivePairs(messages)

-----------------------------------------------------------------------------
Terminal ==
    /\ ~isLoading
    /\ abortControllerRef = 0
    /\ NoExchange
    /\ Streaming(messages) = {}

\* C27: when the transport settles every fetch and ends every stream, every
\* accepted submit (isLoading) leads to a terminal state: no message is
\* streaming, isLoading is false, the handle is null and the call has
\* returned, so the next submit is accepted.
C27_SubmitReachesTerminalState == isLoading ~> Terminal

\* regenerate submitted again, and was accepted, after the first exchange
\* had reached its terminal state
C27_Witness ==
    /\ lastOp.op = "regenerateLastResponse"
    /\ Len(messages) = 3
    /\ messages[3].isStreaming /\ isLoading
    /\ \E e \in Slots : ex[e].pc = "fetch" /\ abortControllerRef = e

-----------------------------------------------------------------------------
(* C28: the continuations of a call (events, finalization, abort, failure) *)
(* address the message by the placeholder id of the call: a step of a call *)
(* keeps the length of the transcript and leaves every message with        *)
(* another id unchanged; when regenerate or reset removed the placeholder  *)
(* while the stream was running, nothing is modified.                      *)

StreamSteps ==
    {"FetchResolved", "FetchFailed", "ReadChunk", "ReadDone", "ReadFailed", "AbortHandler"}

C28_Step ==
    lastOp'.op \in StreamSteps =>
        /\ Len(messages') = Len(messages)
        /\ \A i \in 1..Len(messages) :
              messages[i].id # lastOp'.frame.assistantId => messages'[i] = messages[i]

\* C28: every step of a call changes at most the message with its placeholder id.
C28_FoldingAddressesById == [][C28_Step]_vars

\* a token was folded by a call whose placeholder regenerate had removed:
\* the transcript [user, assistant, user] is as it was
C28_Witness ==
    /\ lastOp.op = "ReadChunk"
    /\ lastOp.frame.assistantId \notin Ids(messages)
    /\ \E e \in Slots : ex[e].pc = "read" /\ ex[e].fullContent = <<"a">>
    /\ Len(messages) = 3
    /\ messages[3].role = "user" /\ messages[3].content = <<"r">>
    /\ Finalized(messages[2])

-----------------------------------------------------------------------------
ConversationCreated(effs) == {k \in 1..Len(effs) : effs[k].type = "onConversationCreated"}

\* C29: the failure notification is issued once by the step in which an
\* exchange ends by a transport failure or decodes its first error event,
\* and by no other step: not by normal completion, by cancellation, or by a
\* chunk without error event (malformed records included).
C29_ToastOncePerFailedExchange ==
    [][/\ lastOp'.op \in {"FetchFailed", "ReadFailed"}
          => Cardinality(Toasts(effects')) = 1
       /\ (lastOp'.op = "ReadChunk" /\ ~HasErrorEvent(wire) /\ HasErrorEvent(wire'))
          => Cardinality(Toasts(effects')) = 1
       /\ (\/ lastOp'.op \in {"sendMessage", "stopStreaming", "FetchResolved",
                               "ReadDone", "AbortHandler"}
           \/ lastOp'.op = "ReadChunk" /\ ~HasErrorEvent(wire'))
          => Toasts(effects') = {}]_vars

\* C30: onConversationCreated is called only by a step that begins with
\* conversationId unset, once, with the id that conversationId takes.
C30_ConversationCreatedOnce ==
    [][ConversationCreated(effects') # {}
          => /\ conversationId = Undefined
             /\ Cardinality(ConversationCreated(effects')) = 1
             /\ \A k \in ConversationCreated(effects') : effects'[k].id = conversationId']_vars

-----------------------------------------------------------------------------
Invalidations(effs) == {k \in 1..Len(effs) : effs[k].type = "invalidateQueries"}

\* C31: the conversation cache is invalidated only by the step that finalizes
\* an exchange normally (the stream closed and carried no error event), once,
\* as the last effect of that step and with the message finalized; no other
\* step invalidates it, and a stream that carried an error event never does.
C31_InvalidateOnlyOnSuccess ==
    [][/\ Invalidations(effects') # {}
          => /\ lastOp'.op = "ReadDone"
             /\ ~HasErrorEvent(wire')
       /\ (lastOp'.op = "ReadDone" /\ ~HasErrorEvent(wire'))
          => /\ Invalidations(effects') = {Len(effects')}
             /\ Len(messages') = 2
             /\ Finalized(messages'[2])]_vars

\* The part of C31 that does not depend on error events: only the step that
\* ends the read loop with done invalidates the cache, and it does so once.
C31_InvalidateOnlyAtStreamEnd ==
    [][/\ Invalidations(effects') # {} => lastOp'.op = "ReadDone"
       /\ lastOp'.op = "ReadDone" => Invalidations(effects') = {Len(effects')}]_vars

-----------------------------------------------------------------------------
Requests(effs) == {k \in 1..Len(effs) : effs[k].type = "fetch"}

\* a submit or a regenerate that the hook accepts: the text is not blank (a
\* regenerate takes the last user message) and isLoading is false
Accepted ==
    \/ lastOp'.op = "sendMessage" /\ ~IsBlank(lastOp'.arg) /\ ~isLoading
    \/ lastOp'.op = "regenerateLastResponse" /\ Users(messages) # {} /\ ~isLoading

\* C32: a step issues one request if it is an accepted submit or regenerate
\* and no request otherwise: none by a refused submit, by stop or reset, or
\* by the step in which an exchange fails, is cancelled or completes.
C32_OneRequestPerAcceptedSubmit ==
    [][Cardinality(Requests(effects')) = (IF Accepted THEN 1 ELSE 0)]_vars

\* a submit after a failed exchange: the failure issued no request (the
\* formula), this submit issues one
C32_Witness ==
    /\ lastOp.op = "sendMessage"
    /\ Len(messages) = 4
    /\ messages[2].content = FailureText
    /\ Cardinality(Requests(effects)) = 1

-----------------------------------------------------------------------------
\* the text a submit or a regenerate is called with
Submitted ==
    IF lastOp'.op = "sendMessage"
    THEN lastOp'.arg
    ELSE messages[LastIndexOf(messages, "user")].content

\* C33: the request a step issues carries the trimmed text of the submit (for
\* a regenerate, of the last user message) and the conversationId the session
\* has when the call is made, which the call leaves as it is; after a reset
\* the session has no conversationId, so the next request carries none.
C33_RequestCarriesTextAndConversation ==
    [][/\ \A k \in Requests(effects') :
             /\ IsTrimOf(effects'[k].text, Submitted)
             /\ effects'[k].id = conversationId
             /\ conversationId' = conversationId
       /\ lastOp'.op = "resetChat" => conversationId' = Undefined]_vars

\* the second submit of a session that began without conversation id sends
\* the id the first stream assigned
C33_Witness ==
    /\ lastOp.op = "sendMessage"
    /\ Len(messages) = 4
    /\ Requests(effects) # {}
    /\ effects[1].id = "A"
    /\ effects[1].text = <<"q">>

-----------------------------------------------------------------------------
SourcesEvents(w) == {k \in 1..Len(w) : w[k].marker /\ w[k].kind = "sources"}

\* the list of the last sources event of the lines w, empty if w has none
LastSources(w) ==
    IF SourcesEvents(w) = {} THEN <<>>
    ELSE w[CHOOSE k \in SourcesEvents(w) : \A j \in SourcesEvents(w) : j <= k].arg

\* C34: when the stream of an exchange ends normally, the finalized assistant
\* message carries the list of the last sources event of the stream, and the
\* empty list if the stream had no sources event.
C34_FinalizedCarriesLastSources ==
    (lastOp.op = "ReadDone" /\ ~HasErrorEvent(wire)) =>
        /\ Len(messages) = 2
        /\ Finalized(messages[2])
        /\ messages[2].hasSources
        /\ messages[2].sources = LastSources(wire)

\* a stream whose second sources event has a shorter list than its first
C34_Witness ==
    /\ lastOp.op = "ReadDone"
    /\ wire = <<SourcesLine(<<"s1", "s2">>), TokenLine("a"), SourcesLine(<<"s1">>)>>
    /\ messages[2].sources = <<"s1">>

-----------------------------------------------------------------------------
\* C35: in every reachable state isLoading is true exactly when a call of
\* sendMessage has not returned, and exactly when the transcript has a
\* streaming assistant message (the states between abort() and the handling
\* of its rejection aside).
C35_LoadingIffStreaming ==
    /\ isLoading <=> ~NoExchange
    /\ ~MicrotaskPending => (isLoading <=> Streaming(messages) # {})

\* The part of C35 that holds: isLoading is true exactly when a call has not
\* returned, and no message is streaming while isLoading is false.
C35_LoadingIffCallRunning ==
    /\ isLoading <=> ~NoExchange
    /\ ~isLoading => Streaming(messages) = {}

-----------------------------------------------------------------------------
HasDone(w) == \E k \in 1..Len(w) : w[k].marker /\ w[k].kind = "[DONE]"

\* C36: a stream that carried the sentinel [DONE] is folded like one without
\* it. After a chunk the assistant message is still streaming, the call is
\* still reading, and the content is the concatenation of the token fragments
\* of the whole stream, those after the sentinel included; the message is
\* finalized, with that content and the last sources list, only when the
\* stream is closed.
C36_SentinelDoesNotFinalize ==
    (HasDone(wire) /\ Len(messages) = 2) =>
        /\ lastOp.op = "ReadChunk" =>
              /\ \E e \in Slots : ex[e].pc = "read" /\ abortControllerRef = e
              /\ isLoading
              /\ messages[2].isStreaming
              /\ ~messages[2].hasSources
              /\ messages[2].content = TokenConcat(wire)
              /\ Invalidations(effects) = {}
        /\ lastOp.op = "ReadDone" =>
              /\ Finalized(messages[2])
              /\ messages[2].content = TokenConcat(wire)
              /\ messages[2].sources = LastSources(wire)

\* a token after the sentinel has been folded and the message still streams
C36_Witness ==
    /\ lastOp.op = "ReadChunk"
    /\ wire = <<TokenLine("a"), Line(TRUE, "[DONE]", <<>>), TokenLine("b")>>
    /\ messages[2].content = <<"a", "b">>
    /\ messages[2].isStreaming

-----------------------------------------------------------------------------
\* f1 + ... + fn of the token payloads of the lines w, with or without the
\* framing marker
RECURSIVE PayloadConcat(_)
PayloadConcat(w) ==
    IF w = <<>> THEN <<>>
    ELSE (IF Head(w).kind = "token" THEN Head(w).arg ELSE <<>>) \o PayloadConcat(Tail(w))

\* C37: a record with a JSON event payload is folded whether or not its line
\* begins with the framing marker: when the stream ends normally the content
\* is the concatenation of the fragments of all token payloads of the stream.
C37_MarkerIsOptional ==
    (lastOp.op = "ReadDone" /\ ~HasErrorEvent(wire) /\ Len(messages) = 2) =>
        messages[2].content = PayloadConcat(wire)

-----------------------------------------------------------------------------
(* The viewer specification: one viewer at a time, a document of 1 to       *)
(* MaxPages pages, an initial page of the document.                         *)

PdfNext ==
    \/ \E pages \in 1..MaxPages : \E initialPage \in 1..pages : MountViewer(pages, initialPage)
    \/ onDocumentLoadSuccess
    \/ onDocumentLoadError
    \/ goToPrevPage
    \/ goToNextPage
    \/ \E i \in 0..4 : PageButton(i)
    \/ CloseViewer

PdfSpec == Init /\ [][PdfNext]_vars

Loaded == pdf.mounted /\ ~pdf.isLoading /\ ~pdf.error

\* C38: while the viewer is mounted currentPage is at least 1; once the
\* document is loaded currentPage is at most numPages; and every button of
\* the five-button window, when the bar is rendered, is a page of 1..numPages.
C38_PageStaysInDocument ==
    pdf.mounted =>
        /\ 1 <= pdf.currentPage
        /\ Loaded => pdf.currentPage <= pdf.numPages
        /\ PageBar => \A i \in WindowButtons(pdf.numPages) :
                          WindowPage(pdf.numPages, pdf.currentPage, i) \in 1..pdf.numPages

\* a page button has set a page in the middle of a document of eight pages:
\* the window is 3..7
C38_Witness ==
    /\ lastOp.op = "PageButton"
    /\ pdf.numPages = 8
    /\ pdf.currentPage = 5
    /\ {WindowPage(8, pdf.currentPage, i) : i \in WindowButtons(8)} = 3..7

====
